---------------------------- MODULE Spec2Model ----------------------------
(***************************************************************************)
(* Model of new_main_supcon_Generalization.py: the contrastive training    *)
(* driver main() with parse_option, set_loader, set_model and train.       *)
(*                                                                         *)
(* One run of the script is one behaviour.  The command line (argv) and    *)
(* the machine (env) are fixed in Init; every statement group of main()    *)
(* and of the inner loop of train() is one action, in program order, so    *)
(* that ordering claims can be read off the program counter pc.            *)
(*                                                                         *)
(* Floats are modelled as exact rationals <<numerator, denominator>> in    *)
(* lowest terms.  Wall-clock durations are one tick each.  Tensor rows     *)
(* are tagged by <<position in batch, view>>, so that cat/split/stack,     *)
(* which never look at a row's content, can be checked row for row.        *)
(*                                                                         *)
(* util.py (AverageMeter, adjust_learning_rate, warmup_learning_rate,      *)
(* set_optimizer, save_model), rf_dataset.py, networks/ and losses.py are  *)
(* imported by the script but are not part of the sources; their           *)
(* definitions below follow the written specification.                     *)
(***************************************************************************)
EXTENDS Integers, Sequences, FiniteSets, TLC

(***************************************************************************)
(* Bounds of the model.                                                    *)
(***************************************************************************)
MaxEpochs == 3
MaxSaveFreq == 3
MaxSamples == 8
MaxArgLen == 3
MaxScheduleEpochs == 5
MaxWarmEpochsRun == 11

(***************************************************************************)
(* Program constants.                                                      *)
(***************************************************************************)
WarmBatchThreshold == 256
WarmEpochs == 10
CosineFloorPower == 3

(***************************************************************************)
(* Exact rationals <<n, d>>, d > 0, in lowest terms.                       *)
(***************************************************************************)
Abs(n) == IF n < 0 THEN -n ELSE n

RECURSIVE Gcd(_, _)
Gcd(a, b) == IF b = 0 THEN a ELSE Gcd(b, a % b)

Norm(n, d) ==
    LET g == Gcd(Abs(n), d)
    IN  IF n = 0 THEN <<0, 1>> ELSE <<n \div g, d \div g>>

Lcm(a, b) == (a \div Gcd(a, b)) * b

RAdd(x, y) ==
    LET d == Lcm(x[2], y[2])
    IN  Norm(x[1] * (d \div x[2]) + y[1] * (d \div y[2]), d)

RNeg(x) == <<-x[1], x[2]>>

RSub(x, y) == RAdd(x, RNeg(y))

RMul(x, y) ==
    LET a == Norm(x[1], y[2])
        b == Norm(y[1], x[2])
    IN  Norm(a[1] * b[1], a[2] * b[2])

RLe(x, y) == RSub(y, x)[1] >= 0

RLt(x, y) == RSub(y, x)[1] > 0

RECURSIVE RPow(_, _)
RPow(x, k) == IF k = 0 THEN <<1, 1>> ELSE RMul(x, RPow(x, k - 1))

RECURSIVE SumSeq(_)
SumSeq(s) == IF s = <<>> THEN 0 ELSE Head(s) + SumSeq(Tail(s))


(***************************************************************************)
(* Strings are sequences of one-character strings.                         *)
(***************************************************************************)
DigitValue(c) ==
    CASE c = "0" -> 0 [] c = "1" -> 1 [] c = "2" -> 2 [] c = "3" -> 3
      [] c = "4" -> 4 [] c = "5" -> 5 [] c = "6" -> 6 [] c = "7" -> 7
      [] c = "8" -> 8 [] c = "9" -> 9

IsDigit(c) == c \in {"0", "1", "2", "3", "4", "5", "6", "7", "8", "9"}

(* str.split(','): one token per comma-separated field, empty fields       *)
(* included; the empty string splits into one empty token.                 *)
RECURSIVE SplitComma(_)
SplitComma(s) ==
    IF s = <<>> THEN << <<>> >>
    ELSE LET rest == SplitComma(Tail(s))
         IN  IF Head(s) = ","
             THEN << <<>> >> \o rest
             ELSE << <<Head(s)>> \o Head(rest) >> \o Tail(rest)

(* int(token): an optional sign followed by at least one digit.            *)
IntBody(tok) ==
    IF tok # <<>> /\ Head(tok) \in {"-", "+"} THEN Tail(tok) ELSE tok

IsPyInt(tok) ==
    /\ IntBody(tok) # <<>>
    /\ \A i \in 1..Len(IntBody(tok)) : IsDigit(IntBody(tok)[i])

RECURSIVE DigitsValue(_)
DigitsValue(ds) ==
    IF ds = <<>> THEN 0
    ELSE 10 * DigitsValue(SubSeq(ds, 1, Len(ds) - 1)) + DigitValue(ds[Len(ds)])

PyInt(tok) ==
    IF tok # <<>> /\ Head(tok) = "-"
    THEN -DigitsValue(IntBody(tok))
    ELSE DigitsValue(IntBody(tok))

(* lines 61-62: the milestone list, in the order written, unvalidated.     *)
DecayEpochsParses(str) ==
    \A i \in 1..Len(SplitComma(str)) : IsPyInt(SplitComma(str)[i])

ParseDecayEpochs(str) ==
    LET toks == SplitComma(str)
    IN  [i \in 1..Len(toks) |-> PyInt(toks[i])]

(***************************************************************************)
(* (1 + cos(pi * a / b)) / 2 at the angles where it is rational: the        *)
(* multiples of pi/3 and of pi/2.                                          *)
(***************************************************************************)
ExactAngle(a, b) ==
    /\ b > 0
    /\ (6 * a) % b = 0
    /\ (((6 * a) \div b) % 12) \in {0, 2, 3, 4, 6, 8, 9, 10}

HalfCos(a, b) ==
    LET t == ((6 * a) \div b) % 12
    IN  CASE t = 0 -> <<1, 1>>
          [] t \in {2, 10} -> <<3, 4>>
          [] t \in {3, 9} -> <<1, 2>>
          [] t \in {4, 8} -> <<1, 4>>
          [] t = 6 -> <<0, 1>>

ExactCosineRun(E) ==
    /\ ExactAngle(WarmEpochs, E)
    /\ \A e \in 1..E : ExactAngle(e, E)

(***************************************************************************)
(* parse_option (lines 22-92).                                             *)
(***************************************************************************)
DatasetChoices == {"rf", "sp"}

NeedsFolderAndStats(dataset) == dataset \in {"path", "rf"}

RequiredArgs == {"data_folder", "mean", "std"}

ForcedWarm(args) == args.batch_size > WarmBatchThreshold \/ args.warm

WarmupFrom == <<1, 100>>

EtaMin(args) ==
    RMul(args.learning_rate, RPow(args.lr_decay_rate, CosineFloorPower))

WarmupTo(args) ==
    IF args.cosine
    THEN RAdd(EtaMin(args),
              RMul(RSub(args.learning_rate, EtaMin(args)),
                   HalfCos(WarmEpochs, args.epochs)))
    ELSE args.learning_rate

(* The error parse_option ends in, "none" when it returns.                 *)
ParseError(args) ==
    IF args.dataset \notin DatasetChoices THEN "SystemExit"
    ELSE IF NeedsFolderAndStats(args.dataset)
            /\ ~(RequiredArgs \subseteq args.given) THEN "AssertionError"
    ELSE IF ~DecayEpochsParses(args.lr_decay_epochs) THEN "ValueError"
    ELSE "none"

(* The option record parse_option returns; the warmup attributes exist     *)
(* only when warmup is on (lines 73-82).                                   *)
ParsedOpt(args) ==
    [ dataset         |-> args.dataset,
      model           |-> args.model,
      method          |-> args.method,
      epochs          |-> args.epochs,
      save_freq       |-> args.save_freq,
      print_freq      |-> args.print_freq,
      batch_size      |-> args.batch_size,
      learning_rate   |-> args.learning_rate,
      lr_decay_rate   |-> args.lr_decay_rate,
      lr_decay_epochs |-> ParseDecayEpochs(args.lr_decay_epochs),
      cosine          |-> args.cosine,
      syncBN          |-> args.syncBN,
      warm            |-> ForcedWarm(args),
      tb_folder       |-> "tb_folder",
      save_folder     |-> "save_folder" ]
    @@ (IF ForcedWarm(args)
        THEN [ warmup_from |-> WarmupFrom,
               warm_epochs |-> WarmEpochs,
               warmup_to   |-> WarmupTo(args) ]
        ELSE <<>>)

(* lines 84-90: the output directories parse_option makes.                 *)
OutputDirs == {"tb_folder", "save_folder"}


(***************************************************************************)
(* set_loader (lines 95-115).  The DataLoader cuts the samples, in sampler *)
(* order, into batches of batch_size, the last one holding the rest.       *)
(***************************************************************************)
LoaderSupports(dataset) == dataset = "sp"

BatchSizesOf(samples, batch_size) ==
    LET n == (samples + batch_size - 1) \div batch_size
    IN  [k \in 1..n |-> IF k < n THEN batch_size
                        ELSE samples - (n - 1) * batch_size]

(* One batch of b samples: the two augmented views of the sample at each   *)
(* position, and its label.                                                *)
MakeBatch(b) ==
    [ images |-> << [i \in 1..b |-> <<i, 1>>], [i \in 1..b |-> <<i, 2>>] >>,
      labels |-> [i \in 1..b |-> <<"label", i>>] ]

NoBatch == [ images |-> << <<>>, <<>> >>, labels |-> <<>> ]

(***************************************************************************)
(* set_model (lines 118-142).                                              *)
(***************************************************************************)
EncoderRegistry == {"CustomCNN", "CustomCNNmini", "CustomCNNminidrop"}

(* lines 119-129: the local `model` after the selection; an unknown name   *)
(* on dataset sp prints a message and leaves the local unbound.            *)
SelectModelFallback(o) ==
    IF o.dataset = "sp"
    THEN IF o.model \in EncoderRegistry THEN o.model ELSE "CustomCNN"
    ELSE "SupConResNet"

SelectModel(o) ==
    IF o.dataset = "sp"
    THEN IF o.model \in EncoderRegistry THEN o.model ELSE "unbound"
    ELSE "SupConResNet"

(* lines 132-142: the error set_model ends in.  `apex` is never imported,  *)
(* so the syncBN branch raises NameError on the name apex before it reads  *)
(* model; every other path reads the local model (model.cuda() on line     *)
(* 138, or the return on line 142), an UnboundLocalError when unbound.     *)
SetModelError(o, m) ==
    IF o.syncBN THEN "NameError"
    ELSE IF m = "unbound" THEN "UnboundLocalError"
    ELSE "none"

(***************************************************************************)
(* The tensor operations train() uses, along the batch dimension.          *)
(***************************************************************************)
TorchCat(a, b) == a \o b

(* torch.split(x, [n, m]): the first n rows, then the next m.              *)
TorchSplit2(x, n, m) == << SubSeq(x, 1, n), SubSeq(x, n + 1, n + m) >>

(* cat([f1.unsqueeze(1), f2.unsqueeze(1)], dim=1): row i pairs f1[i], f2[i]. *)
StackViews(f1, f2) == [i \in 1..Len(f1) |-> <<f1[i], f2[i]>>]

(* The encoder maps row i of its input to row i of its output.             *)
Encode(rows) == [i \in 1..Len(rows) |-> <<"emb", rows[i]>>]

(* line 156 *)
CatViewsSwapped(images) == TorchCat(images[2], images[1])

CatViews(images) == TorchCat(images[1], images[2])

(* line 160 *)
Bsz(images, labels) == Len(labels)

(* lines 164-166 *)
PairedFeatures(images, bsz) ==
    LET features == Encode(images)
        halves == TorchSplit2(features, bsz, bsz)
    IN  StackViews(halves[1], halves[2])

(***************************************************************************)
(* AverageMeter: val, sum, count and avg = sum / count.                    *)
(***************************************************************************)
NewMeter == [ val |-> 0, sum |-> 0, count |-> 0, avg |-> <<0, 1>> ]

MeterUpdate(m, value, weight) ==
    [ val   |-> value,
      sum   |-> m.sum + value * weight,
      count |-> m.count + weight,
      avg   |-> Norm(m.sum + value * weight, m.count + weight) ]

(***************************************************************************)
(* The learning-rate schedule.                                             *)
(***************************************************************************)
MilestonesPassed(o, ep) ==
    Cardinality({i \in 1..Len(o.lr_decay_epochs) : o.lr_decay_epochs[i] <= ep})

(* adjust_learning_rate(opt, optimizer, epoch): the epoch's base rate.     *)
AdjustLearningRate(o, ep) ==
    IF o.cosine
    THEN LET eta_min == RMul(o.learning_rate,
                             RPow(o.lr_decay_rate, CosineFloorPower))
         IN  RAdd(eta_min, RMul(RSub(o.learning_rate, eta_min),
                                HalfCos(ep, o.epochs)))
    ELSE RMul(o.learning_rate, RPow(o.lr_decay_rate, MilestonesPassed(o, ep)))

(* warmup_learning_rate(opt, epoch, batch_id, total_batches, optimizer):   *)
(* inside the warmup window the rate is interpolated linearly over the     *)
(* steps elapsed; outside it the optimizer's rate is left alone.           *)
InWarmup(o, ep) == o.warm /\ ep <= o.warm_epochs

WarmupLearningRate(o, ep, batch_id, total_batches, lr) ==
    IF InWarmup(o, ep)
    THEN LET p == Norm(batch_id + (ep - 1) * total_batches,
                       o.warm_epochs * total_batches)
         IN  RAdd(o.warmup_from, RMul(p, RSub(o.warmup_to, o.warmup_from)))
    ELSE lr

(* line 214 *)
SaveDueOffByOne(ep, save_freq) == (ep + 1) % save_freq = 0

SaveDue(ep, save_freq) == ep % save_freq = 0

(* save_model(model, optimizer, opt, epoch, save_file): one snapshot.      *)
Snapshot(file, ep) == [ file |-> file, epoch |-> ep ]


(***************************************************************************)
(* State.                                                                  *)
(*   argv, env    the command line and the machine; never change           *)
(*   pc, err      position in main()/train(), and the exception that ended *)
(*                the run ("none" while it runs)                           *)
(*   opt          the option record, once parse_option has returned        *)
(*   made         the directories this run created                         *)
(*   loader       the batch sizes the DataLoader yields each epoch         *)
(*   model, optimizer, logger   main()'s objects                           *)
(*   epoch, idx   the loop variables of main() and train()                 *)
(*   local        train()'s locals of the current step                     *)
(*   meters       train()'s three AverageMeters                            *)
(*   lossUpdates  the (value, weight) pairs given to losses.update in the  *)
(*                current call of train()                                  *)
(*   lossTotal    the sum and the weight of every losses.update of the run *)
(*   epochLoss    main()'s `loss`, the value train() returned              *)
(*   ckpts        the snapshots written, in order                          *)
(*   calls        how often each operation has run so far                  *)
(***************************************************************************)
VARIABLES argv, env, pc, err, opt, made, loader, model, optimizer, logger,
          epoch, idx, local, meters, lossUpdates, lossTotal, epochLoss, ckpts,
          calls

vars == <<argv, env, pc, err, opt, made, loader, model, optimizer, logger,
          epoch, idx, local, meters, lossUpdates, lossTotal, epochLoss, ckpts,
          calls>>

config == <<argv, env>>

(***************************************************************************)
(* The command lines and machines the model runs.                          *)
(***************************************************************************)
Chars == {"1", "2", "4", ",", "-"}

RECURSIVE StringsUpTo(_)
StringsUpTo(n) ==
    IF n = 0 THEN { <<>> }
    ELSE StringsUpTo(n - 1)
         \cup { Append(s, c) : s \in {t \in StringsUpTo(n - 1) : Len(t) = n - 1},
                               c \in Chars }

Rates == { <<1, 200>>, <<1, 100>>, <<1, 20>>, <<1, 1>> }

DecayRates == { <<1, 10>>, <<1, 2>> }

LossValues == {1, 2}

ModelNames == EncoderRegistry \cup {"resnet50"}

DatasetNames == {"sp", "rf", "path", "cifar10"}

BaseArgs ==
    [ dataset         |-> "sp",
      given           |-> {},
      model           |-> "CustomCNN",
      method          |-> "SupCon",
      epochs          |-> 1,
      save_freq       |-> 1,
      print_freq      |-> 2,
      batch_size      |-> 4,
      learning_rate   |-> <<1, 20>>,
      lr_decay_rate   |-> <<1, 10>>,
      lr_decay_epochs |-> <<"2">>,
      cosine          |-> FALSE,
      warm            |-> FALSE,
      syncBN          |-> FALSE ]

BaseEnv ==
    [ cuda |-> FALSE, samples |-> 2, existing |-> {}, losses |-> {1} ]

(* Epoch counts, checkpoint cadences, dataset sizes and batch sizes.       *)
DriverRuns ==
    { << [BaseArgs EXCEPT !.epochs = E, !.save_freq = F,
                             !.batch_size = B, !.method = m],
         [BaseEnv EXCEPT !.samples = S, !.losses = LossValues] >> :
        E \in 1..MaxEpochs, F \in 1..MaxSaveFreq, S \in 1..MaxSamples,
        B \in {3, 4}, m \in {"SupCon", "SimCLR"} }

(* Datasets, required arguments, model names, devices.                     *)
SetupRuns ==
    { << [BaseArgs EXCEPT !.dataset = d, !.given = g, !.model = m,
                             !.syncBN = sb],
         [BaseEnv EXCEPT !.cuda = cu, !.existing = ex] >> :
        d \in DatasetNames, g \in SUBSET RequiredArgs, m \in ModelNames,
        sb \in BOOLEAN, cu \in BOOLEAN, ex \in {{}, OutputDirs} }

(* Step decay: every --lr_decay_epochs string up to MaxArgLen characters.  *)
StepDecayRuns ==
    { << [BaseArgs EXCEPT !.epochs = E, !.lr_decay_epochs = str,
                             !.learning_rate = <<1, 1>>, !.lr_decay_rate = dr],
         BaseEnv >> :
        E \in 1..MaxScheduleEpochs, str \in StringsUpTo(MaxArgLen),
        dr \in DecayRates }

(* Warmup, asked for or forced by the batch size, with and without cosine. *)
WarmupRuns ==
    { << [BaseArgs EXCEPT !.epochs = E, !.learning_rate = lr,
                             !.cosine = co, !.warm = w, !.batch_size = B],
         [BaseEnv EXCEPT !.samples = S] >> :
        E \in 1..MaxWarmEpochsRun, lr \in Rates, co \in BOOLEAN,
        w \in BOOLEAN, B \in {1, WarmBatchThreshold + 1}, S \in 1..2 }

Runs ==
    { r \in DriverRuns \cup SetupRuns \cup StepDecayRuns \cup WarmupRuns :
        r[1].cosine => ExactCosineRun(r[1].epochs) }

NoLocal ==
    [ batch |-> NoBatch, images |-> <<>>, bsz |-> 0, features |-> <<>>,
      lossArgs |-> <<>>, loss |-> 0 ]

NoCalls ==
    [ fetch |-> 0, data_time |-> 0, rate |-> 0, forward |-> 0, loss |-> 0,
      record |-> 0, zero_grad |-> 0, backward |-> 0, step |-> 0,
      batch_time |-> 0, progress |-> 0, log |-> 0 ]

Init ==
    /\ \E r \in Runs : argv = r[1] /\ env = r[2]
    /\ pc = "parse_option"
    /\ err = "none"
    /\ opt = [ parsed |-> FALSE ]
    /\ made = {}
    /\ loader = <<>>
    /\ model = "unbound"
    /\ optimizer = [ lr |-> <<0, 1>>, grads |-> "none", stepLr |-> <<0, 1>> ]
    /\ logger = [ open |-> FALSE, loss |-> <<0, 1>>, lr |-> <<0, 1>>, epoch |-> 0 ]
    /\ epoch = 0
    /\ idx = -1
    /\ local = NoLocal
    /\ meters = [ batch_time |-> NewMeter, data_time |-> NewMeter,
                  losses |-> NewMeter ]
    /\ lossUpdates = <<>>
    /\ lossTotal = [ sum |-> 0, count |-> 0 ]
    /\ epochLoss = <<0, 1>>
    /\ ckpts = <<>>
    /\ calls = NoCalls

Raise(e) ==
    /\ pc' = "error"
    /\ err' = e

(***************************************************************************)
(* main(), lines 192-201.                                                  *)
(***************************************************************************)
(* line 193 *)
ParseOption ==
    /\ pc = "parse_option"
    /\ IF ParseError(argv) # "none"
       THEN /\ Raise(ParseError(argv))
            /\ UNCHANGED <<opt, made>>
       ELSE /\ opt' = ParsedOpt(argv)
            /\ made' = OutputDirs \ env.existing
            /\ pc' = "set_loader"
            /\ err' = err
    /\ UNCHANGED <<config, loader, model, optimizer, logger, epoch, idx,
                   local, meters, lossUpdates, lossTotal, epochLoss, ckpts, calls>>

(* line 195 *)
SetLoader ==
    /\ pc = "set_loader"
    /\ IF LoaderSupports(opt.dataset)
       THEN /\ loader' = BatchSizesOf(env.samples, opt.batch_size)
            /\ pc' = "set_model"
            /\ err' = err
       ELSE /\ Raise("DatasetNotSupported")
            /\ loader' = loader
    /\ UNCHANGED <<config, opt, made, model, optimizer, logger, epoch, idx,
                   local, meters, lossUpdates, lossTotal, epochLoss, ckpts, calls>>

(* line 197 *)
SetModel ==
    /\ pc = "set_model"
    /\ LET m == SelectModel(opt)
           e == SetModelError(opt, m)
       IN  IF e = "none"
           THEN /\ model' = m
                /\ pc' = "set_optimizer"
                /\ err' = err
           ELSE /\ Raise(e)
                /\ model' = model
    /\ UNCHANGED <<config, opt, made, loader, optimizer, logger, epoch, idx,
                   local, meters, lossUpdates, lossTotal, epochLoss, ckpts, calls>>

(* line 199: set_optimizer builds the optimizer at the base rate.          *)
SetOptimizer ==
    /\ pc = "set_optimizer"
    /\ optimizer' = [optimizer EXCEPT !.lr = opt.learning_rate]
    /\ pc' = "logger"
    /\ UNCHANGED <<config, err, opt, made, loader, model, logger, epoch, idx,
                   local, meters, lossUpdates, lossTotal, epochLoss, ckpts, calls>>

(* line 201 *)
MakeLogger ==
    /\ pc = "logger"
    /\ logger' = [logger EXCEPT !.open = TRUE]
    /\ pc' = "epoch_loop"
    /\ UNCHANGED <<config, err, opt, made, loader, model, optimizer, epoch,
                   idx, local, meters, lossUpdates, lossTotal, epochLoss, ckpts, calls>>


(***************************************************************************)
(* main(), the epoch loop (lines 203-221).                                 *)
(***************************************************************************)
(* lines 203-204: the next epoch of range(1, epochs + 1); the base rate of *)
(* the epoch `ep` handed to adjust_learning_rate is put on the optimizer.  *)
BeginEpoch(ep) ==
    /\ pc = "epoch_loop"
    /\ epoch < opt.epochs
    /\ epoch' = epoch + 1
    /\ optimizer' = [optimizer EXCEPT !.lr = AdjustLearningRate(opt, ep)]
    /\ pc' = "train"
    /\ UNCHANGED <<config, err, opt, made, loader, model, logger, idx, local,
                   meters, lossUpdates, lossTotal, epochLoss, ckpts, calls>>

EpochStartStale == BeginEpoch(epoch)

EpochStart == BeginEpoch(epoch + 1)

(***************************************************************************)
(* train(), lines 145-189.                                                 *)
(***************************************************************************)
(* lines 156-179: the statements of one step, in the order written; the    *)
(* last one leads back to the loop head.                                   *)
StepOrderZeroAfterBackward ==
    << "cat", "rate", "forward", "loss", "record_loss", "backward",
       "zero_grad", "step", "batch_time" >>

StepOrder ==
    << "cat", "rate", "forward", "loss", "record_loss", "zero_grad",
       "backward", "step", "batch_time" >>

After(p) ==
    LET i == CHOOSE k \in 1..Len(StepOrder) : StepOrder[k] = p
    IN  IF i = Len(StepOrder) THEN "fetch" ELSE StepOrder[i + 1]

(* lines 146-152: three new meters for this call.                          *)
FreshMeters ==
    [ batch_time |-> NewMeter, data_time |-> NewMeter, losses |-> NewMeter ]

KeptMeters == meters

MetersAtTrainEntry == FreshMeters

TrainBegin ==
    /\ pc = "train"
    /\ meters' = MetersAtTrainEntry
    /\ lossUpdates' = <<>>
    /\ idx' = -1
    /\ pc' = "fetch"
    /\ UNCHANGED <<config, err, opt, made, loader, model, optimizer, logger,
                   epoch, local, lossTotal, epochLoss, ckpts, calls>>

(* lines 153-154: the loader yields the next batch; data_time records the  *)
(* wait.                                                                   *)
Fetch ==
    /\ pc = "fetch"
    /\ idx + 1 < Len(loader)
    /\ idx' = idx + 1
    /\ local' = [NoLocal EXCEPT !.batch = MakeBatch(loader[idx + 2])]
    /\ meters' = [meters EXCEPT !.data_time = MeterUpdate(@, 1, 1)]
    /\ calls' = [calls EXCEPT !.fetch = @ + 1, !.data_time = @ + 1]
    /\ pc' = StepOrder[1]
    /\ UNCHANGED <<config, err, opt, made, loader, model, optimizer, logger,
                   epoch, lossUpdates, lossTotal, epochLoss, ckpts>>

(* lines 156-160 *)
Cat ==
    /\ pc = "cat"
    /\ local' = [local EXCEPT
                   !.images = CatViews(local.batch.images),
                   !.bsz = Bsz(CatViews(local.batch.images), local.batch.labels)]
    /\ pc' = After("cat")
    /\ UNCHANGED <<config, err, opt, made, loader, model, optimizer, logger,
                   epoch, idx, meters, lossUpdates, lossTotal, epochLoss, ckpts, calls>>

(* line 162: warmup_learning_rate is handed the 0-based index `i` of the   *)
(* batch and the number of batches per epoch.                              *)
ApplyRate(i) ==
    /\ pc = "rate"
    /\ optimizer' = [optimizer EXCEPT
                       !.lr = WarmupLearningRate(opt, epoch, i, Len(loader), @)]
    /\ calls' = [calls EXCEPT !.rate = @ + 1]
    /\ pc' = After("rate")
    /\ UNCHANGED <<config, err, opt, made, loader, model, logger, epoch, idx,
                   local, meters, lossUpdates, lossTotal, epochLoss, ckpts>>

Rate == ApplyRate(idx)

(* lines 164-166: torch.split raises unless the sizes add up to the rows.  *)
Forward ==
    /\ pc = "forward"
    /\ IF 2 * local.bsz = Len(local.images)
       THEN /\ local' = [local EXCEPT
                           !.features = PairedFeatures(local.images, local.bsz)]
            /\ calls' = [calls EXCEPT !.forward = @ + 1]
            /\ pc' = After("forward")
            /\ err' = err
       ELSE /\ Raise("RuntimeError")
            /\ UNCHANGED <<local, calls>>
    /\ UNCHANGED <<config, opt, made, loader, model, optimizer, logger, epoch,
                   idx, meters, lossUpdates, lossTotal, epochLoss, ckpts>>

(* lines 167-170: SupCon is given the labels, SimCLR is not; the value of  *)
(* the loss is the criterion's.                                            *)
Loss ==
    /\ pc = "loss"
    /\ \E v \in env.losses :
         local' = [local EXCEPT
                     !.loss = v,
                     !.lossArgs = IF opt.method = "SupCon"
                                  THEN <<local.features, local.batch.labels>>
                                  ELSE <<local.features>>]
    /\ calls' = [calls EXCEPT !.loss = @ + 1]
    /\ pc' = After("loss")
    /\ UNCHANGED <<config, err, opt, made, loader, model, optimizer, logger,
                   epoch, idx, meters, lossUpdates, lossTotal, epochLoss, ckpts>>

(* line 172: losses.update(loss.item(), w) *)
RecordWeighted(w) ==
    /\ pc = "record_loss"
    /\ meters' = [meters EXCEPT !.losses = MeterUpdate(@, local.loss, w)]
    /\ lossUpdates' = Append(lossUpdates, <<local.loss, w>>)
    /\ lossTotal' = [ sum |-> lossTotal.sum + local.loss * w,
                      count |-> lossTotal.count + w ]
    /\ calls' = [calls EXCEPT !.record = @ + 1]
    /\ pc' = After("record_loss")
    /\ UNCHANGED <<config, err, opt, made, loader, model, optimizer, logger,
                   epoch, idx, local, epochLoss, ckpts>>

RecordLossUnweighted == RecordWeighted(1)

RecordLoss == RecordWeighted(local.bsz)

(* line 174 *)
ZeroGrad ==
    /\ pc = "zero_grad"
    /\ optimizer' = [optimizer EXCEPT !.grads = "zero"]
    /\ calls' = [calls EXCEPT !.zero_grad = @ + 1]
    /\ pc' = After("zero_grad")
    /\ UNCHANGED <<config, err, opt, made, loader, model, logger, epoch, idx,
                   local, meters, lossUpdates, lossTotal, epochLoss, ckpts>>

(* line 175 *)
Backward ==
    /\ pc = "backward"
    /\ optimizer' = [optimizer EXCEPT !.grads = "fresh"]
    /\ calls' = [calls EXCEPT !.backward = @ + 1]
    /\ pc' = After("backward")
    /\ UNCHANGED <<config, err, opt, made, loader, model, logger, epoch, idx,
                   local, meters, lossUpdates, lossTotal, epochLoss, ckpts>>

(* line 176: the parameter update, at the rate the optimizer holds.        *)
Step ==
    /\ pc = "step"
    /\ optimizer' = [optimizer EXCEPT !.grads = "applied", !.stepLr = optimizer.lr]
    /\ calls' = [calls EXCEPT !.step = @ + 1]
    /\ pc' = After("step")
    /\ UNCHANGED <<config, err, opt, made, loader, model, logger, epoch, idx,
                   local, meters, lossUpdates, lossTotal, epochLoss, ckpts>>

(* lines 178-187: batch_time, and a progress line every print_freq steps.  *)
BatchTime ==
    /\ pc = "batch_time"
    /\ meters' = [meters EXCEPT !.batch_time = MeterUpdate(@, 1, 1)]
    /\ calls' = [calls EXCEPT
                   !.batch_time = @ + 1,
                   !.progress = IF (idx + 1) % opt.print_freq = 0
                                THEN @ + 1 ELSE @]
    /\ pc' = After("batch_time")
    /\ UNCHANGED <<config, err, opt, made, loader, model, optimizer, logger,
                   epoch, idx, local, lossUpdates, lossTotal, epochLoss, ckpts>>

(* line 189, when the loader is exhausted *)
TrainReturn ==
    /\ pc = "fetch"
    /\ idx + 1 = Len(loader)
    /\ epochLoss' = meters.losses.avg
    /\ pc' = "epoch_end"
    /\ UNCHANGED <<config, err, opt, made, loader, model, optimizer, logger,
                   epoch, idx, local, meters, lossUpdates, lossTotal, ckpts, calls>>

(***************************************************************************)
(* main(), lines 208-221.                                                  *)
(***************************************************************************)
(* lines 208-217: the epoch's two log entries, then the periodic snapshot. *)
EpochEnd ==
    /\ pc = "epoch_end"
    /\ logger' = [logger EXCEPT !.loss = epochLoss, !.lr = optimizer.lr,
                                !.epoch = epoch]
    /\ calls' = [calls EXCEPT !.log = @ + 2]
    /\ ckpts' = IF SaveDue(epoch, opt.save_freq)
                THEN Append(ckpts, Snapshot(<<"ckpt_epoch", epoch>>, epoch))
                ELSE ckpts
    /\ pc' = "epoch_loop"
    /\ UNCHANGED <<config, err, opt, made, loader, model, optimizer, epoch,
                   idx, local, meters, lossUpdates, lossTotal, epochLoss>>

(* lines 219-221, after the last epoch *)
FinalSave ==
    /\ pc = "epoch_loop"
    /\ epoch >= opt.epochs
    /\ ckpts' = Append(ckpts, Snapshot(<<"last">>, opt.epochs))
    /\ pc' = "done"
    /\ UNCHANGED <<config, err, opt, made, loader, model, optimizer, logger,
                   epoch, idx, local, meters, lossUpdates, lossTotal, epochLoss, calls>>

Next ==
    \/ ParseOption
    \/ SetLoader
    \/ SetModel
    \/ SetOptimizer
    \/ MakeLogger
    \/ EpochStart
    \/ TrainBegin
    \/ Fetch
    \/ Cat
    \/ Rate
    \/ Forward
    \/ Loss
    \/ RecordLoss
    \/ ZeroGrad
    \/ Backward
    \/ Step
    \/ BatchTime
    \/ TrainReturn
    \/ EpochEnd
    \/ FinalSave

Spec == Init /\ [][Next]_vars


(***************************************************************************)
(* Positions.                                                              *)
(***************************************************************************)
InStep ==
    pc \in {"cat", "rate", "forward", "loss", "record_loss", "zero_grad",
            "backward", "step", "batch_time"}

InEpoch == InStep \/ pc \in {"train", "fetch", "epoch_end"}

(* parse_option has returned. *)
Parsed ==
    /\ pc # "parse_option"
    /\ ~(pc = "error" /\ err \in {"SystemExit", "AssertionError", "ValueError"})

BatchesPerEpoch == Len(loader)

(***************************************************************************)
(* C1.  A run with epochs = E >= 1 and save_freq = F >= 1 writes exactly   *)
(* ckpt_epoch_e.pth for the multiples e of F up to E, each once, at the    *)
(* end of epoch e and carrying epoch e, and then one last.pth carrying E;  *)
(* nothing is written for another epoch and nothing is rewritten.          *)
(***************************************************************************)
PeriodicUpTo(n) ==
    [ k \in 1..(n \div argv.save_freq) |->
        [ file |-> <<"ckpt_epoch", k * argv.save_freq>>,
          epoch |-> k * argv.save_freq ] ]

C1_CheckpointCadence ==
    /\ \A i, j \in 1..Len(ckpts) : i # j => ckpts[i].file # ckpts[j].file
    /\ pc \in {"parse_option", "set_loader", "set_model", "set_optimizer",
               "logger", "error"} => ckpts = <<>>
    /\ InEpoch => ckpts = PeriodicUpTo(epoch - 1)
    /\ pc = "epoch_loop" => ckpts = PeriodicUpTo(epoch)
    /\ pc = "done" =>
         ckpts = PeriodicUpTo(argv.epochs)
                   \o << [ file |-> <<"last">>, epoch |-> argv.epochs ] >>

C1_Witness ==
    /\ pc = "done"
    /\ argv.epochs = 3
    /\ argv.save_freq = 2
    /\ ckpts = << [ file |-> <<"ckpt_epoch", 2>>, epoch |-> 2 ],
                  [ file |-> <<"last">>, epoch |-> 3 ] >>

(***************************************************************************)
(* C2.  Over E epochs of N batches of sizes b_1..b_N the driver makes      *)
(* exactly E*N optimizer steps, one per batch fetched and none without a   *)
(* batch, and the loss meter gets one update per batch weighted by the     *)
(* batch's size, b_1+...+b_N in all per epoch.                             *)
(***************************************************************************)
C2_StepsAndWeights ==
    /\ calls.step <= calls.fetch
    /\ calls.fetch <= calls.step + 1
    /\ calls.record <= calls.fetch
    /\ calls.fetch <= calls.record + 1
    /\ pc = "epoch_end" =>
         /\ Len(lossUpdates) = BatchesPerEpoch
         /\ \A k \in 1..BatchesPerEpoch : lossUpdates[k][2] = loader[k]
         /\ meters.losses.count = SumSeq(loader)
         /\ SumSeq(loader) = env.samples
         /\ calls.step = epoch * BatchesPerEpoch
    /\ pc = "done" =>
         /\ calls.step = argv.epochs * BatchesPerEpoch
         /\ calls.fetch = argv.epochs * BatchesPerEpoch
         /\ calls.record = argv.epochs * BatchesPerEpoch

C2_Witness ==
    /\ pc = "done"
    /\ argv.epochs = 1
    /\ loader = <<4, 4>>
    /\ calls.step = 2
    /\ meters.losses.count = 8

(***************************************************************************)
(* C3.  Concatenating view 1 then view 2 of a batch of B samples and       *)
(* splitting the 2B rows at B gives back view 1 and view 2, each in the    *)
(* original order, so row i of the paired tensor holds the embeddings of   *)
(* the two views of sample i, next to label i.                             *)
(***************************************************************************)
C3_CatSplitRoundTrip ==
    /\ (InStep /\ pc # "cat") =>
         /\ local.bsz = Len(local.batch.images[1])
         /\ Len(local.images) = 2 * local.bsz
         /\ TorchSplit2(local.images, local.bsz, local.bsz) = local.batch.images
    /\ (InStep /\ pc \notin {"cat", "rate", "forward"}) =>
         /\ Len(local.features) = Len(local.batch.labels)
         /\ \A i \in 1..Len(local.batch.labels) :
              /\ local.features[i] = << <<"emb", <<i, 1>>>>, <<"emb", <<i, 2>>>> >>
              /\ local.batch.labels[i] = <<"label", i>>

C3_Witness ==
    /\ pc = "record_loss"
    /\ local.bsz = 3
    /\ local.features[3] = << <<"emb", <<3, 1>>>>, <<"emb", <<3, 2>>>> >>

(***************************************************************************)
(* C4.  With cosine and warmup off, the rate in force during epoch e is    *)
(* base_rate * decay_rate^k, k the number of configured milestones <= e;   *)
(* with milestones 2,4, decay 0.1 and base 1.0 it is 1.0 at epoch 1, 0.1   *)
(* at epoch 2, 0.01 at epochs 4 and 5.                                     *)
(***************************************************************************)
ConfiguredMilestones == ParseDecayEpochs(argv.lr_decay_epochs)

StepDecayRate(e) ==
    RMul(argv.learning_rate,
         RPow(argv.lr_decay_rate,
              Cardinality({i \in 1..Len(ConfiguredMilestones) :
                             ConfiguredMilestones[i] <= e})))

StepDecayMode == ~argv.cosine /\ ~ForcedWarm(argv)

C4_StepDecay ==
    (StepDecayMode /\ (InEpoch \/ (pc = "epoch_loop" /\ epoch >= 1))) =>
        /\ optimizer.lr = StepDecayRate(epoch)
        /\ pc = "batch_time" => optimizer.stepLr = StepDecayRate(epoch)
        /\ ( /\ argv.lr_decay_epochs = <<"2", ",", "4">>
             /\ argv.lr_decay_rate = <<1, 10>>
             /\ argv.learning_rate = <<1, 1>> ) =>
               optimizer.lr = IF epoch < 2 THEN <<1, 1>>
                              ELSE IF epoch < 4 THEN <<1, 10>>
                              ELSE <<1, 100>>

C4_Witness ==
    /\ pc = "batch_time"
    /\ StepDecayMode
    /\ argv.lr_decay_epochs = <<"2", ",", "4">>
    /\ argv.lr_decay_rate = <<1, 10>>
    /\ epoch = 5
    /\ optimizer.stepLr = <<1, 100>>


(***************************************************************************)
(* C5.  The warmup window: epochs 1..warm_epochs with warmup on.  A state  *)
(* with pc = "forward" is a step of the window whose rate has just been    *)
(* put on the optimizer; optimizer.stepLr is the rate of the step before.  *)
(***************************************************************************)
WarmupStep == pc = "forward" /\ ForcedWarm(argv) /\ epoch <= WarmEpochs

FirstWarmupStep == WarmupStep /\ epoch = 1 /\ idx = 0

LastWarmupStep ==
    WarmupStep /\ epoch = WarmEpochs /\ idx = BatchesPerEpoch - 1

WarmupStepSize ==
    RMul(RSub(opt.warmup_to, <<1, 100>>),
         <<1, WarmEpochs * BatchesPerEpoch>>)

(* C5: with warmup on, the rate applied over the steps of the warmup       *)
(* window never decreases, is warmup_from at the first step and warmup_to  *)
(* at the last, for every configuration.                                   *)
C5_WarmupRisesToTarget ==
    /\ (WarmupStep /\ calls.step > 0) => RLe(optimizer.stepLr, optimizer.lr)
    /\ FirstWarmupStep => optimizer.lr = <<1, 100>>
    /\ LastWarmupStep => optimizer.lr = opt.warmup_to

(* What the schedule does instead: the rate is warmup_from = 0.01 at the   *)
(* first step of the window and moves by the same amount                   *)
(* (warmup_to - warmup_from) / (warm_epochs * N) at every later step, so   *)
(* it falls when warmup_to < warmup_from, and at the last step of the      *)
(* window it is one such amount short of warmup_to.  Without cosine,       *)
(* warmup_to is the base learning rate.                                    *)
WarmupTowardTarget ==
    /\ (ForcedWarm(argv) /\ Parsed /\ ~argv.cosine) =>
         opt.warmup_to = argv.learning_rate
    /\ FirstWarmupStep => optimizer.lr = <<1, 100>>
    /\ (WarmupStep /\ calls.step > 0) =>
         /\ optimizer.lr = RAdd(optimizer.stepLr, WarmupStepSize)
         /\ RLe(<<1, 100>>, opt.warmup_to) => RLe(optimizer.stepLr, optimizer.lr)
         /\ RLe(opt.warmup_to, <<1, 100>>) => RLe(optimizer.lr, optimizer.stepLr)
    /\ LastWarmupStep => optimizer.lr = RSub(opt.warmup_to, WarmupStepSize)

WarmupFallsShort ==
    /\ LastWarmupStep
    /\ BatchesPerEpoch = 2
    /\ argv.learning_rate = <<1, 200>>
    /\ RLt(optimizer.lr, optimizer.stepLr)
    /\ RLt(opt.warmup_to, optimizer.lr)

(***************************************************************************)
(* C6.  A run that ends because the loader does not support    *)
(* the dataset, or because data_folder, mean or std is missing for a       *)
(* dataset that needs them, has fetched no batch, run no optimizer step,   *)
(* written no checkpoint and created neither output directory.             *)
(***************************************************************************)
C6_ConfigErrorNoSideEffects ==
    (pc = "error" /\ err \in {"DatasetNotSupported", "AssertionError"}) =>
        /\ calls.fetch = 0
        /\ calls.step = 0
        /\ ckpts = <<>>
        /\ made = {}

(***************************************************************************)
(* C7.  The meters at the end of an epoch (train() has returned).          *)
(***************************************************************************)
RECURSIVE WeightedSum(_)
WeightedSum(us) ==
    IF us = <<>> THEN 0 ELSE Head(us)[1] * Head(us)[2] + WeightedSum(Tail(us))

RECURSIVE WeightSum(_)
WeightSum(us) ==
    IF us = <<>> THEN 0 ELSE Head(us)[2] + WeightSum(Tail(us))

(* C7 as claimed: each meter lives for the whole run, so at the end of     *)
(* epoch e its count is the total weight of the updates of epochs 1..e,    *)
(* and the loss returned and logged is sum/count over all of them.         *)
C7_MetersSpanTheRun ==
    /\ pc = "epoch_end" =>
         /\ meters.losses.count = lossTotal.count
         /\ meters.batch_time.count = calls.batch_time
         /\ meters.data_time.count = calls.data_time
         /\ epochLoss = Norm(lossTotal.sum, lossTotal.count)
    /\ (pc = "epoch_loop" /\ epoch >= 1) =>
         logger.loss = Norm(lossTotal.sum, lossTotal.count)

(* C7 as amended: each call of train() makes three new meters, so at the   *)
(* end of epoch e a meter's count is the total weight of the updates of    *)
(* epoch e alone, and the loss returned and logged for epoch e is          *)
(* sum/count over the updates of epoch e alone.                            *)
C7_MetersPerEpoch ==
    /\ (pc = "fetch" /\ idx = -1) =>
         /\ meters.losses.count = 0
         /\ meters.batch_time.count = 0
         /\ meters.data_time.count = 0
    /\ pc = "epoch_end" =>
         /\ meters.losses.count = WeightSum(lossUpdates)
         /\ meters.losses.count = env.samples
         /\ meters.losses.sum = WeightedSum(lossUpdates)
         /\ meters.batch_time.count = BatchesPerEpoch
         /\ meters.data_time.count = BatchesPerEpoch
         /\ epochLoss[1] * WeightSum(lossUpdates)
              = WeightedSum(lossUpdates) * epochLoss[2]
    /\ (pc = "epoch_loop" /\ epoch >= 1) =>
         /\ logger.loss = epochLoss
         /\ logger.epoch = epoch

C7_Witness ==
    /\ pc = "epoch_end"
    /\ epoch = 2
    /\ BatchesPerEpoch = 2
    /\ lossUpdates = << <<1, 4>>, <<2, 3>> >>
    /\ epochLoss = <<10, 7>>
    /\ lossTotal.count = 14

(***************************************************************************)
(* C8.  With dataset sp and a --model name outside the encoder registry,   *)
(* whatever the device and syncBN, the run never gets past set_model: it   *)
(* ends in an error there, with no batch fetched, no optimizer step, no    *)
(* log entry and no checkpoint.                                            *)
(***************************************************************************)
C8_UnknownModelFailsFast ==
    ( /\ argv.dataset = "sp"
      /\ argv.model \notin {"CustomCNN", "CustomCNNmini", "CustomCNNminidrop"} ) =>
        /\ pc \in {"parse_option", "set_loader", "set_model", "error"}
        /\ model = "unbound"
        /\ epoch = 0
        /\ calls = NoCalls
        /\ ~logger.open
        /\ ckpts = <<>>

C8_Witness ==
    /\ pc = "error"
    /\ err = "UnboundLocalError"
    /\ argv.model = "resnet50"
    /\ env.cuda
    /\ ~argv.syncBN

(***************************************************************************)
(* C9.  Once parse_option has returned, the decay milestones   *)
(* are strictly increasing and all lie in [1, epochs].                     *)
(***************************************************************************)
C9_MilestonesOrderedInRange ==
    Parsed =>
        /\ \A i \in 1..Len(opt.lr_decay_epochs) :
             /\ 1 <= opt.lr_decay_epochs[i]
             /\ opt.lr_decay_epochs[i] <= opt.epochs
        /\ \A i \in 1..(Len(opt.lr_decay_epochs) - 1) :
             opt.lr_decay_epochs[i] < opt.lr_decay_epochs[i + 1]

(***************************************************************************)
(* C10.  The order of one step, read off the number of times each          *)
(* operation has run.                                                      *)
(***************************************************************************)
(* C10 as claimed: the rate is set before the forward pass, the gradients  *)
(* are zeroed before the backward pass, which precedes the parameter       *)
(* update, and the loss and timing meters of step i are updated only after *)
(* the parameter update of step i and before batch i+1 is fetched.         *)
C10_MetricsAfterUpdate ==
    /\ calls.forward <= calls.rate
    /\ calls.backward <= calls.zero_grad
    /\ calls.step <= calls.backward
    /\ calls.record <= calls.step
    /\ calls.data_time <= calls.step
    /\ calls.batch_time <= calls.step
    /\ calls.fetch <= calls.record + 1
    /\ calls.fetch <= calls.data_time + 1
    /\ calls.fetch <= calls.batch_time + 1

(* C10 as amended: in every step the batch is fetched and data_time is     *)
(* updated at once, then the rate is set, the forward pass and the loss    *)
(* are computed, the loss meter is updated, the gradients are zeroed, the  *)
(* backward pass and the parameter update run, and batch_time is updated   *)
(* last, before the next batch is fetched: only batch_time is updated      *)
(* after the parameter update.                                             *)
C10_StepOrder ==
    /\ calls.data_time = calls.fetch
    /\ calls.rate <= calls.fetch
    /\ calls.forward <= calls.rate
    /\ calls.loss <= calls.forward
    /\ calls.record <= calls.loss
    /\ calls.zero_grad <= calls.record
    /\ calls.backward <= calls.zero_grad
    /\ calls.step <= calls.backward
    /\ calls.batch_time <= calls.step
    /\ calls.fetch <= calls.batch_time + 1
    /\ pc = "fetch" => calls.batch_time = calls.fetch
    /\ pc = "step" => optimizer.grads = "fresh"

C10_Witness ==
    /\ pc = "zero_grad"
    /\ calls.fetch = 2
    /\ calls.record = 2
    /\ calls.data_time = 2
    /\ calls.step = 1
    /\ calls.batch_time = 1

=============================================================================
